---- MODULE Spec2Model ----
(***************************************************************************)
(* Model of the two scripts of the repository:                             *)
(*   src/fetch_core_transcripts.py  (transcript fetcher: main,             *)
(*                                   get_transcript)                       *)
(*   src/youtube_aigc_sampler.py    (candidate sampler: main,              *)
(*                                   search_videos_for_query,              *)
(*                                   fetch_video_details)                  *)
(* Text is modelled as a sequence of one-character strings, a table        *)
(* (pandas DataFrame) as a sequence of records, a cell that may be NaN as  *)
(* a record with a "null" flag.                                            *)
(***************************************************************************)
EXTENDS Integers, Sequences, FiniteSets, TLC

VARIABLES
    \* ---- environment --------------------------------------------------
    served,       \* fragment lists the transcript service can return
    searchIndex,  \* search API: query number -> sequence of result items
    catalog,      \* details API: video id -> item, or Absent
    \* ---- fetch_core_transcripts.py ------------------------------------
    pc,           \* position of the running script's main()
    columns,      \* df.columns after load_core_csv
    df,           \* the loaded input table
    core_df,      \* df[df["Core_video"].astype(str) == "1"].copy()
    transcripts,  \* the list built by the loop at lines 84-86
    merged,       \* the table handed to to_csv at line 93 (<<>> before)
    calls,        \* video ids get_transcript was called with, in order
    rstate,       \* state of the running get_transcript call
    path,         \* states the running get_transcript call went through
    apiCalls,     \* transcript API calls the running call made, in order
    raised,       \* what each tier of the running call did
    fetched,      \* tier and fragments the running call obtained
    ret,          \* value the running get_transcript call returns
    \* ---- youtube_aigc_sampler.py --------------------------------------
    qi,           \* number of queries searched so far (loop at line 124)
    all_rows,     \* rows collected by the search loop
    cdf,          \* main's df: candidates after drop_duplicates, then merged
    video_ids,    \* argument of fetch_video_details
    cursor,       \* i of range(0, len(video_ids), 50), as a 0-based offset
    detail_rows,  \* rows collected by fetch_video_details
    requests,     \* batches sent to videos().list, in order
    inflight,     \* 1 while a details request is executing, else 0
    csv,          \* rows written to youtube_candidates_basic.csv
    printed       \* messages printed by the sampler's main

envVars     == <<served, searchIndex, catalog>>
fetcherVars == <<columns, df, core_df, transcripts, merged, calls, rstate,
                 path, apiCalls, raised, fetched, ret>>
samplerVars == <<qi, all_rows, cdf, video_ids, cursor, detail_rows, requests,
                 inflight, csv, printed>>
vars        == <<pc, envVars, fetcherVars, samplerVars>>

----------------------------------------------------------------------------
(* Bounds of the model *)

MaxRows  == 3     \* rows of the transcript fetcher's input table
MaxFrags == 2     \* fragments of one served transcript
MaxHits  == 2     \* items one search response holds (dedupe worlds)

(* Program constants *)

NumQueries == 3   \* len(QUERIES)
MaxResults == 40  \* max_results passed to every search
BatchSize  == 50  \* step of the range and width of the slice

----------------------------------------------------------------------------
(* Values *)

SeqsUpTo(S, n) == UNION {[1..k -> S] : k \in 0..n}

\* A cell of a table holding text: NaN/None, or a string.
NullCell == [null |-> TRUE, text |-> <<>>]
Str(s)   == [null |-> FALSE, text |-> s]

\* A numeric cell: NaN, or an integer.
NullNum == [null |-> TRUE, num |-> 0]
Num(n)  == [null |-> FALSE, num |-> n]

Whitespace == {" ", "\t", "\n"}

----------------------------------------------------------------------------
(* get_transcript: text assembly *)

RECURSIVE JoinNoSeparator(_)
JoinNoSeparator(frags) ==
    IF frags = <<>> THEN <<>>
    ELSE Head(frags) \o JoinNoSeparator(Tail(frags))
RECURSIVE Join(_)
\* " ".join(texts)
Join(frags) ==
    IF frags = <<>> THEN <<>>
    ELSE IF Len(frags) = 1 THEN Head(frags)
    ELSE Head(frags) \o <<" ">> \o Join(Tail(frags))

RECURSIVE LStrip(_)
LStrip(s) ==
    IF s # <<>> /\ Head(s) \in Whitespace THEN LStrip(Tail(s)) ELSE s

RECURSIVE RStrip(_)
RStrip(s) ==
    IF s # <<>> /\ s[Len(s)] \in Whitespace
    THEN RStrip(SubSeq(s, 1, Len(s) - 1)) ELSE s

\* str.strip()
Strip(s) == RStrip(LStrip(s))

\* " ".join(getattr(entry, "text", "") for entry in fetched).strip()
\* A fragment is the entry's text ("" for an entry with no text attribute).
TranscriptText(frags) == Strip(Join(frags))

----------------------------------------------------------------------------
(* get_transcript: exception handling *)

KnownAbsence == {"TranscriptsDisabled", "NoTranscriptFound", "VideoUnavailable"}
\* Exception classes the transcript API can raise; "OtherError" is any
\* Exception subclass outside the three named ones.
Exceptions == KnownAbsence \cup {"OtherError"}

\* The except clauses of the outer try (lines 54 and 62).
PrimaryHandlerFallsBackAlways(exc) == "fallback"
PrimaryHandler(exc) ==
    IF exc \in KnownAbsence THEN "fallback"
    ELSE IF exc \in Exceptions THEN "empty"
    ELSE "propagate"

\* The except clause of the inner try (line 60).
FallbackHandlerKnownOnly(exc) ==
    IF exc \in KnownAbsence THEN "empty" ELSE "propagate"
FallbackHandler(exc) ==
    IF exc \in Exceptions THEN "empty" ELSE "propagate"

\* The calls of the fallback tier, in the order lines 57-59 make them.
FallbackStages == <<"list", "find_generated_transcript", "generated.fetch">>

NoTier == [primary |-> "none", fallback |-> "none"]
NoFetch == [tier |-> "none", frags |-> <<>>]

----------------------------------------------------------------------------
(* fetch_core_transcripts.py: tables *)

VideoIds == {1, 2}
Flags    == {"1", "0"}

\* Row k of the input table: its identifier, its flag, and "row", which
\* stands for every other column the row carries through untouched.
InputTables ==
    UNION {{[k \in 1..n |-> [video_id |-> ids[k], Core_video |-> fl[k], row |-> k]]
              : ids \in [1..n -> VideoIds], fl \in [1..n -> Flags]}
           : n \in 0..MaxRows}

RequiredColumns == {"video_id", "Core_video"}

\* df[df["Core_video"].astype(str) == "1"]
SelectCore(table) == SelectSeq(table, LAMBDA r : r.Core_video = "1")

\* core_df["transcript"] = transcripts   (positional assignment of a list)
AttachReversed(core, ts) ==
    [i \in 1..Len(core) |->
        [video_id |-> core[i].video_id, Core_video |-> core[i].Core_video,
         row |-> core[i].row, transcript |-> Str(ts[Len(ts) + 1 - i])]]
AttachTranscripts(core, ts) ==
    [i \in 1..Len(core) |->
        [video_id |-> core[i].video_id, Core_video |-> core[i].Core_video,
         row |-> core[i].row, transcript |-> Str(ts[i])]]

WithTranscript(l, cell) ==
    [video_id |-> l.video_id, Core_video |-> l.Core_video, row |-> l.row,
     transcript |-> cell]

\* df.merge(core_df[["video_id", "transcript"]], on="video_id", how="left"):
\* every left row, in order, once per right row with the same key (in the
\* right's order), or once with NaN when no right row has its key.
RECURSIVE LeftMerge(_, _)
LeftMerge(left, right) ==
    IF left = <<>> THEN <<>>
    ELSE LET l == Head(left)
             m == SelectSeq(right, LAMBDA r : r.video_id = l.video_id)
         IN  (IF m = <<>> THEN <<WithTranscript(l, NullCell)>>
              ELSE [j \in 1..Len(m) |-> WithTranscript(l, m[j].transcript)])
             \o LeftMerge(Tail(left), right)

----------------------------------------------------------------------------
(* Transcripts the service can serve *)

Hello == <<"H", "e", "l", "l", "o">>
world == <<"w", "o", "r", "l", "d">>
Auto  == <<"A", "u", "t", "o">>
text  == <<"t", "e", "x", "t">>

Fragments == {Hello, world, Auto, text, <<>>, <<" ">>, <<" ", "a">>, <<"a", "\n">>}

\* Every transcript of at most MaxFrags fragments.
FragLists == SeqsUpTo(Fragments, MaxFrags)

\* The transcripts of a run over a whole table: one with text, one without.
FewFragLists == {<<<<"X">>>>, <<>>}

----------------------------------------------------------------------------
(* Initial states *)

SamplerIdle ==
    /\ searchIndex = <<>>
    /\ catalog = <<>>
    /\ qi = 0
    /\ all_rows = <<>>
    /\ cdf = <<>>
    /\ video_ids = <<>>
    /\ cursor = 0
    /\ detail_rows = <<>>
    /\ requests = <<>>
    /\ inflight = 0
    /\ csv = <<>>
    /\ printed = <<>>

FetcherIdle ==
    /\ served = {}
    /\ columns = {}
    /\ df = <<>>
    /\ core_df = <<>>
    /\ transcripts = <<>>
    /\ merged = <<>>
    /\ calls = <<>>
    /\ rstate = "Idle"
    /\ path = <<>>
    /\ apiCalls = <<>>
    /\ raised = NoTier
    /\ fetched = NoFetch
    /\ ret = <<>>

FetcherStart(tables, lists) ==
    /\ pc = "f_start"
    /\ served = lists
    /\ df \in tables
    /\ columns \in {RequiredColumns, {"video_id"}, {"Core_video"}}
    /\ core_df = <<>>
    /\ transcripts = <<>>
    /\ merged = <<>>
    /\ calls = <<>>
    /\ rstate = "Idle"
    /\ path = <<>>
    /\ apiCalls = <<>>
    /\ raised = NoTier
    /\ fetched = NoFetch
    /\ ret = <<>>
    /\ SamplerIdle

\* One flagged video, any transcript of up to MaxFrags fragments.
InitResolver ==
    FetcherStart({t \in InputTables : Len(t) = 1 /\ t[1].Core_video = "1"}, FragLists)

\* Any table of up to MaxRows rows.
InitFetcher == FetcherStart(InputTables, FewFragLists)

----------------------------------------------------------------------------
(* fetch_core_transcripts.py: main, lines 73-82 *)

Start ==
    /\ pc = "f_start"
    /\ IF ~(RequiredColumns \subseteq columns)
       THEN /\ pc' = "f_value_error"
            /\ core_df' = core_df
       ELSE /\ core_df' = SelectCore(df)
            /\ pc' = IF core_df' = <<>> THEN "f_no_core" ELSE "f_loop"
    /\ UNCHANGED <<envVars, samplerVars, columns, df, transcripts, merged,
                   calls, rstate, path, apiCalls, raised, fetched, ret>>

(* main, line 85-86: the loop calls get_transcript(vid); line 50 *)
CallGetTranscript ==
    /\ pc = "f_loop"
    /\ rstate = "Idle"
    /\ Len(transcripts) < Len(core_df)
    /\ calls' = Append(calls, core_df[Len(transcripts) + 1].video_id)
    /\ rstate' = "NotStarted"
    /\ path' = <<"NotStarted">>
    /\ UNCHANGED <<pc, envVars, samplerVars, columns, df, core_df,
                   transcripts, merged, apiCalls, raised, fetched, ret>>

(* get_transcript, line 52: api.fetch(video_id, languages=LANGS) is called *)
BeginPrimary ==
    /\ rstate = "NotStarted"
    /\ rstate' = "PrimaryAttempted"
    /\ path' = Append(path, "PrimaryAttempted")
    /\ apiCalls' = Append(apiCalls, "fetch")
    /\ UNCHANGED <<pc, envVars, samplerVars, columns, df, core_df,
                   transcripts, merged, calls, raised, fetched, ret>>

(* get_transcript, lines 52-53: the primary tier returns a transcript *)
PrimaryReturns ==
    /\ rstate = "PrimaryAttempted"
    /\ \E frags \in served :
          /\ fetched' = [tier |-> "primary", frags |-> frags]
          /\ ret' = TranscriptText(frags)
    /\ raised' = [raised EXCEPT !.primary = "ok"]
    /\ rstate' = "Resolved"
    /\ path' = Append(path, "Resolved")
    /\ UNCHANGED <<pc, envVars, samplerVars, columns, df, core_df,
                   transcripts, merged, calls, apiCalls>>

(* get_transcript, lines 52-57 and 62-64: the primary tier raises *)
PrimaryRaises ==
    /\ rstate = "PrimaryAttempted"
    /\ \E exc \in Exceptions :
          /\ raised' = [raised EXCEPT !.primary = exc]
          /\ LET h == PrimaryHandler(exc)
             IN  /\ rstate' = CASE h = "fallback" -> "FallbackAttempted"
                                [] h = "empty" -> "Empty"
                                [] OTHER -> "Raised"
                 /\ path' = Append(path, rstate')
                 /\ apiCalls' = IF h = "fallback"
                                THEN Append(apiCalls, FallbackStages[1])
                                ELSE apiCalls
                 /\ pc' = IF h \in {"fallback", "empty"} THEN pc ELSE "f_crashed"
    /\ ret' = <<>>
    /\ UNCHANGED <<envVars, samplerVars, columns, df, core_df, transcripts,
                   merged, calls, fetched>>

(* get_transcript, lines 57-59: the fallback tier returns a transcript *)
FallbackReturns ==
    /\ rstate = "FallbackAttempted"
    /\ \E frags \in served :
          /\ fetched' = [tier |-> "fallback", frags |-> frags]
          /\ ret' = TranscriptText(frags)
    /\ raised' = [raised EXCEPT !.fallback = "ok"]
    /\ apiCalls' = apiCalls \o SubSeq(FallbackStages, 2, 3)
    /\ rstate' = "Resolved"
    /\ path' = Append(path, "Resolved")
    /\ UNCHANGED <<pc, envVars, samplerVars, columns, df, core_df,
                   transcripts, merged, calls>>

(* get_transcript, lines 57-61: call number `stage` of the fallback tier
   raises *)
FallbackRaises ==
    /\ rstate = "FallbackAttempted"
    /\ \E stage \in 1..Len(FallbackStages), exc \in Exceptions :
          /\ raised' = [raised EXCEPT !.fallback = exc]
          /\ apiCalls' = apiCalls \o SubSeq(FallbackStages, 2, stage)
          /\ LET h == FallbackHandler(exc)
             IN  /\ rstate' = IF h = "empty" THEN "Empty" ELSE "Raised"
                 /\ path' = Append(path, rstate')
                 /\ pc' = IF h = "empty" THEN pc ELSE "f_crashed"
    /\ ret' = <<>>
    /\ UNCHANGED <<envVars, samplerVars, columns, df, core_df, transcripts,
                   merged, calls, fetched>>

(* main, line 86: transcripts.append(<the returned value>); the call's
   frame is gone *)
AppendTranscript ==
    /\ pc = "f_loop"
    /\ rstate \in {"Resolved", "Empty"}
    /\ transcripts' = Append(transcripts, ret)
    /\ rstate' = "Idle"
    /\ path' = <<>>
    /\ apiCalls' = <<>>
    /\ raised' = NoTier
    /\ fetched' = NoFetch
    /\ ret' = <<>>
    /\ UNCHANGED <<pc, envVars, samplerVars, columns, df, core_df, merged,
                   calls>>

(* main, lines 88-94: attach, merge back, write the output file *)
MergeAndSave ==
    /\ pc = "f_loop"
    /\ rstate = "Idle"
    /\ Len(transcripts) = Len(core_df)
    /\ core_df' = AttachTranscripts(core_df, transcripts)
    /\ merged' = LeftMerge(df, core_df')
    /\ pc' = "f_saved"
    /\ UNCHANGED <<envVars, samplerVars, columns, df, transcripts, calls,
                   rstate, path, apiCalls, raised, fetched, ret>>

NextFetcher ==
    \/ Start
    \/ CallGetTranscript
    \/ BeginPrimary
    \/ PrimaryReturns
    \/ PrimaryRaises
    \/ FallbackReturns
    \/ FallbackRaises
    \/ AppendTranscript
    \/ MergeAndSave

SpecResolver == InitResolver /\ [][NextFetcher]_vars
SpecFetcher  == InitFetcher /\ [][NextFetcher]_vars
\* main runs to its end: every step that can be taken is taken.
FairFetcher  == InitFetcher /\ [][NextFetcher]_vars /\ WF_vars(NextFetcher)

----------------------------------------------------------------------------
(* Claims about get_transcript (SpecResolver) *)

Terminal == {"Resolved", "Empty"}

\* The running call has finished its last tier.
CallEnded ==
    /\ raised.primary # "none"
    /\ ~(raised.primary \in KnownAbsence /\ raised.fallback = "none")

\* C1: get_transcript never propagates an exception: whatever the primary
\* tier does (returns, raises one of the three absence conditions, raises
\* anything else) and whatever the fallback tier does (returns, or raises
\* while listing, finding or fetching), the call ends in Resolved, returning
\* the text of the tier that returned, or in Empty, returning "".
C1_NeverPropagates ==
    /\ pc # "f_crashed"
    /\ rstate # "Raised"
    /\ CallEnded => rstate \in Terminal
    /\ rstate = "Resolved" <=> "ok" \in {raised.primary, raised.fallback}
    /\ rstate = "Resolved" => fetched.tier # "none"
    /\ rstate = "Empty" =>
          /\ ret = <<>>
          /\ fetched = NoFetch
          /\ \/ raised.primary = "OtherError"
             \/ raised.primary \in KnownAbsence /\ raised.fallback \in Exceptions

\* Both tiers failed, the second with an error outside the known set, and
\* the call returned "".
C1_Witness ==
    /\ rstate = "Empty"
    /\ raised.primary = "VideoUnavailable"
    /\ raised.fallback = "OtherError"
    /\ apiCalls = <<"fetch", "list", "find_generated_transcript">>
    /\ ret = <<>>

AllowedPaths ==
    {<<"NotStarted">>,
     <<"NotStarted", "PrimaryAttempted">>,
     <<"NotStarted", "PrimaryAttempted", "Resolved">>,
     <<"NotStarted", "PrimaryAttempted", "Empty">>,
     <<"NotStarted", "PrimaryAttempted", "FallbackAttempted">>,
     <<"NotStarted", "PrimaryAttempted", "FallbackAttempted", "Resolved">>,
     <<"NotStarted", "PrimaryAttempted", "FallbackAttempted", "Empty">>}

Count(seq, x) == Cardinality({i \in 1..Len(seq) : seq[i] = x})

\* C2: the resolver takes only the specified transitions: the primary tier
\* first and exactly once; the fallback tier if and only if the primary
\* tier raised one of the three absence conditions, and then once; any
\* other primary error straight to Empty with no fallback call; a primary
\* success straight to Resolved; no tier is called twice.
C2_OnlySpecifiedTransitions ==
    /\ rstate # "Idle" => path \in AllowedPaths /\ path[Len(path)] = rstate
    /\ Count(apiCalls, "fetch") = Count(path, "PrimaryAttempted")
    /\ Count(apiCalls, "list") = Count(path, "FallbackAttempted")
    /\ \A c \in {"fetch", "list", "find_generated_transcript", "generated.fetch"} :
          Count(apiCalls, c) <= 1
    /\ apiCalls # <<>> => apiCalls[1] = "fetch"
    /\ Count(path, "FallbackAttempted") = 1 <=> raised.primary \in KnownAbsence
    /\ raised.primary = "OtherError" =>
          /\ path = <<"NotStarted", "PrimaryAttempted", "Empty">>
          /\ apiCalls = <<"fetch">>
    /\ raised.primary = "ok" =>
          /\ path = <<"NotStarted", "PrimaryAttempted", "Resolved">>
          /\ apiCalls = <<"fetch">>
    /\ raised.fallback # "none" => raised.primary \in KnownAbsence

\* The primary tier raised an absence condition, the fallback tier was
\* tried once and returned.
C2_Witness ==
    /\ path = <<"NotStarted", "PrimaryAttempted", "FallbackAttempted", "Resolved">>
    /\ raised.primary = "NoTranscriptFound"
    /\ apiCalls = <<"fetch", "list", "find_generated_transcript", "generated.fetch">>

RECURSIVE Offset(_, _)
\* Characters of the joined text that precede fragment i.
Offset(frags, i) ==
    IF i = 1 THEN 0 ELSE Offset(frags, i - 1) + Len(frags[i - 1]) + 1

\* The joined text, character by character: position p holds the character
\* of the fragment covering it, or the one space between two fragments.
Joined(frags) ==
    LET n == Len(frags)
        total == IF n = 0 THEN 0 ELSE Offset(frags, n) + Len(frags[n])
    IN  [p \in 1..total |->
            IF \E i \in 1..n : Offset(frags, i) < p /\ p <= Offset(frags, i) + Len(frags[i])
            THEN LET i == CHOOSE i \in 1..n :
                            Offset(frags, i) < p /\ p <= Offset(frags, i) + Len(frags[i])
                 IN  frags[i][p - Offset(frags, i)]
            ELSE " "]

\* r is j without its leading and trailing whitespace.
IsTrimmed(r, j) ==
    \E a \in 0..Len(j) : \E b \in a..Len(j) :
        /\ r = SubSeq(j, a + 1, b)
        /\ \A k \in 1..a : j[k] \in Whitespace
        /\ \A k \in (b + 1)..Len(j) : j[k] \in Whitespace
        /\ r # <<>> => r[1] \notin Whitespace /\ r[Len(r)] \notin Whitespace

\* C3: when a tier returns, the result is that tier's fragments in their
\* order, joined by single spaces, with leading and trailing whitespace
\* removed: primary ["Hello", "world"] gives "Hello world"; primary
\* 'disabled' then fallback ["Auto", "text"] gives "Auto text"; both tiers
\* failing gives "".
C3_JoinedAndTrimmed ==
    /\ rstate = "Resolved" =>
          /\ IsTrimmed(ret, Joined(fetched.frags))
          /\ fetched.tier = (IF raised.primary = "ok" THEN "primary" ELSE "fallback")
    /\ (rstate = "Resolved" /\ fetched = [tier |-> "primary", frags |-> <<Hello, world>>])
          => ret = Hello \o <<" ">> \o world
    /\ (rstate = "Resolved" /\ raised.primary = "TranscriptsDisabled"
        /\ fetched.frags = <<Auto, text>>)
          => ret = Auto \o <<" ">> \o text
    /\ (CallEnded /\ "ok" \notin {raised.primary, raised.fallback}) => ret = <<>>

\* The 'disabled' primary tier followed by the fallback's "Auto", "text".
C3_Witness ==
    /\ rstate = "Resolved"
    /\ raised.primary = "TranscriptsDisabled"
    /\ fetched = [tier |-> "fallback", frags |-> <<Auto, text>>]
    /\ ret = <<"A", "u", "t", "o", " ", "t", "e", "x", "t">>

----------------------------------------------------------------------------
(* Claims about the transcript fetcher's main (SpecFetcher, FairFetcher) *)

IsCore(k) == df[k].Core_video = "1"

\* Position of input row k among the flagged rows.
CoreRank(k) == Cardinality({j \in 1..k : IsCore(j)})

\* Input row that is the i-th flagged one.
NthCore(i) == CHOOSE k \in 1..Len(df) : IsCore(k) /\ CoreRank(k) = i

NumCore == Cardinality({k \in 1..Len(df) : IsCore(k)})

\* C5: in the output, every row that was not selected (Core_video is not
\* "1") has a null transcript and every selected row carries exactly the
\* string the resolver returned for it, for any input table, also one in
\* which several rows share a video id.
C5_UnselectedNullSelectedExact ==
    pc = "f_saved" =>
        \A i \in 1..Len(merged) :
            LET r == merged[i]
            IN  IF r.Core_video = "1"
                THEN r.transcript = Str(transcripts[CoreRank(r.row)])
                ELSE r.transcript = NullCell

\* C6: the output has exactly the input's rows, one output row per input
\* row in the input's order, every original column value unchanged.
C6_SameRowsSameOrder ==
    pc = "f_saved" =>
        /\ Len(merged) = Len(df)
        /\ \A i \in 1..Len(merged) :
              /\ i <= Len(df)
              /\ merged[i].row = df[i].row
              /\ merged[i].video_id = df[i].video_id
              /\ merged[i].Core_video = df[i].Core_video

C10_Inv ==
    /\ pc # "f_crashed"
    /\ Len(calls) <= NumCore
    /\ \A i \in 1..Len(calls) : calls[i] = df[NthCore(i)].video_id
    /\ Len(calls) = Len(transcripts) + (IF rstate = "Idle" THEN 0 ELSE 1)
    /\ pc = "f_saved" =>
          /\ Len(calls) = NumCore
          /\ Len(core_df) = NumCore
          /\ \A i \in 1..NumCore :
                /\ core_df[i].row = NthCore(i)
                /\ core_df[i].transcript = Str(transcripts[i])

\* C10: with k >= 1 flagged rows and any pattern of per-video failures, the
\* resolver is called exactly k times, once per flagged row, one call at a
\* time in the flagged rows' input order; the i-th result is attached to the
\* i-th flagged row; and the run always reaches the step that writes the
\* output file.
C10_BatchIsolation ==
    /\ []C10_Inv
    /\ (pc = "f_loop") ~> (pc = "f_saved")

\* Three flagged rows, the second video's resolution failed, the run saved.
C10_Witness ==
    /\ pc = "f_saved"
    /\ NumCore = 3
    /\ Len(calls) = 3
    /\ transcripts = <<<<"X">>, <<>>, <<"X">>>>

----------------------------------------------------------------------------
(* youtube_aigc_sampler.py: API items and table rows *)

Min(a, b) == IF a < b THEN a ELSE b

Digits == <<"0", "1", "2", "3", "4", "5", "6", "7", "8", "9">>

RECURSIVE NumStr(_)
NumStr(n) ==
    IF n < 10 THEN <<Digits[n + 1]>>
    ELSE NumStr(n \div 10) \o <<Digits[(n % 10) + 1]>>

\* A key of a JSON object: absent, or present with null or with a string.
NoKey      == [key |-> FALSE, null |-> FALSE, text |-> <<>>]
NullKey    == [key |-> TRUE, null |-> TRUE, text |-> <<>>]
StrKey(s)  == [key |-> TRUE, null |-> FALSE, text |-> s]

\* dict.get(key) and dict.get(key, "")
Get(field) == IF field.key /\ ~field.null THEN Str(field.text) ELSE NullCell
GetOrEmpty(field) ==
    IF ~field.key THEN Str(<<>>)
    ELSE IF field.null THEN NullCell ELSE Str(field.text)

\* int(s.get(key, 0)) for a statistic that is absent or a number
NoStat == [key |-> FALSE, num |-> 0]
Stat(n) == [key |-> TRUE, num |-> n]
GetCount(field) == IF field.key THEN Num(field.num) ELSE Num(0)

\* The k-th item of the response to query q, for video id: with a snippet,
\* or without one.
FullSearchItem(q, k, id) ==
    [videoId |-> id,
     channelId |-> StrKey(<<"c">> \o NumStr(id)),
     channelTitle |-> StrKey(<<"C">> \o NumStr(id)),
     publishedAt |-> StrKey(<<"2", "0", "2", "5", "-", "0", "8", "-", "0">> \o NumStr(q)),
     title |-> StrKey(<<"t">> \o NumStr(q) \o <<".">> \o NumStr(k)),
     description |-> StrKey(<<"d">> \o NumStr(q) \o <<".">> \o NumStr(k))]
ThinSearchItem(q, k, id) ==
    [videoId |-> id, channelId |-> NoKey, channelTitle |-> NoKey,
     publishedAt |-> NoKey, title |-> NoKey, description |-> NoKey]

\* search_videos_for_query, lines 72-85: one row per returned item.
SearchRow(item, q) ==
    [video_id |-> item.videoId,
     channel_id |-> Get(item.channelId),
     channel_title |-> Get(item.channelTitle),
     publish_date |-> Get(item.publishedAt),
     title |-> Get(item.title),
     description |-> GetOrEmpty(item.description),
     query |-> q]

SearchRows(items, q) == [k \in 1..Len(items) |-> SearchRow(items[k], q)]

\* What the details API holds for one video.
Absent == [found |-> FALSE, viewCount |-> NoStat, likeCount |-> NoStat,
           commentCount |-> NoStat, title |-> NoKey, description |-> NoKey,
           publishedAt |-> NoKey]
DetailItem(stat, t, d, p) ==
    [found |-> TRUE, viewCount |-> stat, likeCount |-> stat,
     commentCount |-> stat, title |-> t, description |-> d, publishedAt |-> p]

FullTitle == StrKey(<<"T">>)
FullDescription == StrKey(<<"D">>)
FullPublishedAt == StrKey(<<"2", "0", "2", "5", "-", "0", "9", "-", "3", "0">>)
ShortPublishedAt == StrKey(<<"2", "0", "2", "5">>)

FullDetail == DetailItem(Stat(7), FullTitle, FullDescription, FullPublishedAt)

\* fetch_video_details, lines 97-111: one row per item of the response.
DetailRow(id, item) ==
    [video_id |-> id,
     view_count |-> GetCount(item.viewCount),
     like_count |-> GetCount(item.likeCount),
     comment_count |-> GetCount(item.commentCount),
     full_title |-> GetOrEmpty(item.title),
     full_description |-> GetOrEmpty(item.description),
     publish_date_full |-> GetOrEmpty(item.publishedAt)]

\* The response to videos().list(id=",".join(batch)): the items of the
\* batch's videos that exist, in the batch's order (positions lo..hi).
RECURSIVE DetailRowsBetween(_, _, _, _)
DetailRowsBetween(batch, cat, lo, hi) ==
    IF lo > hi THEN <<>>
    ELSE IF lo = hi
    THEN (IF cat[batch[lo]].found THEN <<DetailRow(batch[lo], cat[batch[lo]])>> ELSE <<>>)
    ELSE LET mid == (lo + hi) \div 2
         IN  DetailRowsBetween(batch, cat, lo, mid)
             \o DetailRowsBetween(batch, cat, mid + 1, hi)

DetailRowsFor(batch, cat) == DetailRowsBetween(batch, cat, 1, Len(batch))

\* video_ids[i : i + 50]
BatchOfOverlapping(ids, i) == SubSeq(ids, i + 1, Min(i + BatchSize + 1, Len(ids)))
BatchOf(ids, i) == SubSeq(ids, i + 1, Min(i + BatchSize, Len(ids)))

----------------------------------------------------------------------------
(* youtube_aigc_sampler.py: main's table operations *)

\* df.duplicated(subset="video_id"), keep="first": row i repeats an earlier
\* row's video_id.
DuplicatedLast(rows, i) ==
    \E j \in (i + 1)..Len(rows) : rows[j].video_id = rows[i].video_id
Duplicated(rows, i) ==
    \E j \in 1..(i - 1) : rows[j].video_id = rows[i].video_id

\* The rows lo..hi that are not duplicated, in order.
RECURSIVE Unduplicated(_, _, _)
Unduplicated(rows, lo, hi) ==
    IF lo > hi THEN <<>>
    ELSE IF lo = hi
    THEN (IF Duplicated(rows, lo) THEN <<>> ELSE <<rows[lo]>>)
    ELSE LET mid == (lo + hi) \div 2
         IN  Unduplicated(rows, lo, mid) \o Unduplicated(rows, mid + 1, hi)

\* df.drop_duplicates(subset="video_id").reset_index(drop=True)
DropDuplicates(rows) == Unduplicated(rows, 1, Len(rows))

\* df.empty
NeverEmpty(rows) == FALSE
IsEmpty(rows) == rows = <<>>

\* One row of df.merge(details_df, on="video_id", how="left") after the
\* three fillna assignments, the drop of the full_* columns and the
\* month_bucket assignment (lines 141-150); `d` is the matching detail row
\* or NoDetail.
NoDetail == [video_id |-> 0, view_count |-> NullNum, like_count |-> NullNum,
             comment_count |-> NullNum, full_title |-> NullCell,
             full_description |-> NullCell, publish_date_full |-> NullCell]

\* a.fillna(b)
FillNa(a, b) == IF a.null THEN b ELSE a

\* s.str.slice(0, 7)
Slice7(c) == IF c.null THEN c ELSE Str(SubSeq(c.text, 1, Min(7, Len(c.text))))

Reconciled(c, d) ==
    LET pd == FillNa(d.publish_date_full, c.publish_date)
    IN  [video_id |-> c.video_id,
         channel_id |-> c.channel_id,
         channel_title |-> c.channel_title,
         publish_date |-> pd,
         title |-> FillNa(d.full_title, c.title),
         description |-> FillNa(d.full_description, c.description),
         query |-> c.query,
         view_count |-> d.view_count,
         like_count |-> d.like_count,
         comment_count |-> d.comment_count,
         month_bucket |-> Slice7(pd)]

\* df.merge(details_df, on="video_id", how="left") and lines 144-150, for
\* the left rows lo..hi: every left row, in order, once per detail row with
\* its video_id, or once with NaN details.
RECURSIVE MergeBetween(_, _, _, _)
MergeBetween(left, right, lo, hi) ==
    IF lo > hi THEN <<>>
    ELSE IF lo = hi
    THEN LET c == left[lo]
             m == SelectSeq(right, LAMBDA d : d.video_id = c.video_id)
         IN  IF m = <<>> THEN <<Reconciled(c, NoDetail)>>
             ELSE [j \in 1..Len(m) |-> Reconciled(c, m[j])]
    ELSE LET mid == (lo + hi) \div 2
         IN  MergeBetween(left, right, lo, mid) \o MergeBetween(left, right, mid + 1, hi)

MergeDetails(left, right) == MergeBetween(left, right, 1, Len(left))

----------------------------------------------------------------------------
(* youtube_aigc_sampler.py: initial states *)

AllIds == 1..(NumQueries * MaxResults)

SamplerStart ==
    /\ pc = "s_search"
    /\ qi = 0
    /\ all_rows = <<>>
    /\ cdf = <<>>
    /\ video_ids = <<>>
    /\ cursor = 0
    /\ detail_rows = <<>>
    /\ requests = <<>>
    /\ inflight = 0
    /\ csv = <<>>
    /\ printed = <<>>
    /\ FetcherIdle

\* Every query returns up to MaxHits items: distinct videos among 1..3 in
\* any order, or the videos 1, 2 in any order and with repetitions; every
\* video has details.
HitLists ==
    {h \in SeqsUpTo(1..3, MaxHits) :
        \/ \A i \in 1..Len(h) : h[i] \in {1, 2}
        \/ \A i, j \in 1..Len(h) : h[i] = h[j] => i = j}

InitDedupe ==
    /\ \E hits \in [1..NumQueries -> HitLists] :
          searchIndex = [q \in 1..NumQueries |->
                           [k \in 1..Len(hits[q]) |-> FullSearchItem(q, k, hits[q][k])]]
    /\ catalog = [id \in 1..3 |-> FullDetail]
    /\ SamplerStart

\* Every query returns nothing or one of the videos 1, 2, the first query's
\* item with or without a snippet; each video is absent from the details API or present with any
\* mix of given, null and missing fields.
DetailChoices ==
    {Absent, DetailItem(NoStat, NoKey, NoKey, NoKey)} \cup
    {DetailItem(Stat(7), t, d, p) :
        t \in {FullTitle, NullKey}, d \in {FullDescription, NullKey},
        p \in {FullPublishedAt, ShortPublishedAt, NullKey}}

InitReconcile ==
    /\ \E hits \in [1..NumQueries -> SeqsUpTo({1, 2}, 1)],
          thin \in {{}, {1}} :
          searchIndex = [q \in 1..NumQueries |->
                           [k \in 1..Len(hits[q]) |->
                               IF q \in thin THEN ThinSearchItem(q, k, hits[q][k])
                               ELSE FullSearchItem(q, k, hits[q][k])]]
    /\ \E c1 \in DetailChoices, c2 \in DetailChoices :
          catalog = <<c1, c2>>
    /\ SamplerStart

\* The searches return n distinct videos in all, n from 0 to
\* NumQueries * MaxResults, each response holding at most MaxResults items;
\* every video has details, or only the odd-numbered ones have.
InitEnricher ==
    /\ \E n \in 0..(NumQueries * MaxResults) :
          searchIndex = [q \in 1..NumQueries |->
                           [k \in 1..(Min(q * MaxResults, n) - Min((q - 1) * MaxResults, n)) |->
                               FullSearchItem(q, k, (q - 1) * MaxResults + k)]]
    /\ catalog \in {[id \in AllIds |-> FullDetail],
                    [id \in AllIds |-> IF id % 2 = 1 THEN FullDetail ELSE Absent]}
    /\ SamplerStart

----------------------------------------------------------------------------
(* youtube_aigc_sampler.py: main and fetch_video_details *)

(* main, lines 124-126, and search_videos_for_query: one query is searched *)
Search ==
    /\ pc = "s_search"
    /\ qi < NumQueries
    /\ printed' = Append(printed, "Searching for query")
    /\ all_rows' = all_rows \o SearchRows(searchIndex[qi + 1], qi + 1)
    /\ qi' = qi + 1
    /\ UNCHANGED <<pc, envVars, fetcherVars, cdf, video_ids, cursor,
                   detail_rows, requests, inflight, csv>>

(* main, lines 128-140: dedupe, the empty check, the call of
   fetch_video_details.  drop_duplicates returns an empty frame as it is,
   without looking up the subset column. *)
Dedupe ==
    /\ pc = "s_search"
    /\ qi = NumQueries
    /\ cdf' = DropDuplicates(all_rows)
    /\ IF IsEmpty(cdf')
       THEN /\ printed' = printed \o <<"Raw candidates", "After dedupe", "No videos found">>
            /\ pc' = "s_no_videos"
            /\ video_ids' = video_ids
       ELSE /\ printed' = printed \o <<"Raw candidates", "After dedupe">>
            /\ pc' = "s_enrich"
            /\ video_ids' = [i \in 1..Len(cdf') |-> cdf'[i].video_id]
    /\ cursor' = 0
    /\ UNCHANGED <<envVars, fetcherVars, qi, all_rows, detail_rows, requests,
                   inflight, csv>>

(* fetch_video_details, lines 93-96: the next batch is requested *)
SendDetailRequest ==
    /\ pc = "s_enrich"
    /\ inflight = 0
    /\ cursor < Len(video_ids)
    /\ requests' = Append(requests, BatchOf(video_ids, cursor))
    /\ inflight' = inflight + 1
    /\ UNCHANGED <<pc, envVars, fetcherVars, qi, all_rows, cdf, video_ids,
                   cursor, detail_rows, csv, printed>>

(* fetch_video_details, lines 96-111: the response arrives and its items
   become detail rows; the range moves on *)
ReceiveDetails ==
    /\ pc = "s_enrich"
    /\ inflight > 0
    /\ detail_rows' = detail_rows \o DetailRowsFor(requests[Len(requests)], catalog)
    /\ cursor' = cursor + BatchSize
    /\ inflight' = inflight - 1
    /\ UNCHANGED <<pc, envVars, fetcherVars, qi, all_rows, cdf, video_ids,
                   requests, csv, printed>>

(* fetch_video_details, line 112, and main, lines 141-154.  A frame built
   from no rows has no columns: with no detail row at all the merge on
   "video_id" raises KeyError and the run ends there. *)
Reconcile ==
    /\ pc = "s_enrich"
    /\ inflight = 0
    /\ cursor >= Len(video_ids)
    /\ IF detail_rows = <<>>
       THEN /\ pc' = "s_crashed"
            /\ UNCHANGED <<cdf, csv, printed>>
       ELSE /\ cdf' = MergeDetails(cdf, detail_rows)
            /\ csv' = cdf'
            /\ printed' = Append(printed, "Saved")
            /\ pc' = "s_saved"
    /\ UNCHANGED <<envVars, fetcherVars, qi, all_rows, video_ids, cursor,
                   detail_rows, requests, inflight>>

NextSampler ==
    \/ Search
    \/ Dedupe
    \/ SendDetailRequest
    \/ ReceiveDetails
    \/ Reconcile

SpecDedupe    == InitDedupe /\ [][NextSampler]_vars
SpecReconcile == InitReconcile /\ [][NextSampler]_vars
SpecEnricher  == InitEnricher /\ [][NextSampler]_vars

----------------------------------------------------------------------------
(* Claims about the candidate sampler *)

\* Index in all_rows of the first row with video id v.
FirstIndex(v) ==
    CHOOSE i \in 1..Len(all_rows) :
        /\ all_rows[i].video_id = v
        /\ \A j \in 1..(i - 1) : all_rows[j].video_id # v

\* First query whose response holds video v.
FirstQuery(v) ==
    CHOOSE q \in 1..NumQueries :
        /\ \E k \in 1..Len(searchIndex[q]) : searchIndex[q][k].videoId = v
        /\ \A p \in 1..(q - 1) :
              \A k \in 1..Len(searchIndex[p]) : searchIndex[p][k].videoId # v

\* C4: the deduplicated table holds exactly one row per distinct video id of
\* the concatenated search results; that row is the first occurrence in
\* input order, so its query is the first query that returned the video;
\* and the survivors keep their relative input order.
C4_FirstOccurrenceWins ==
    pc \in {"s_enrich", "s_no_videos"} =>
        /\ \A i, j \in 1..Len(cdf) : cdf[i].video_id = cdf[j].video_id => i = j
        /\ {cdf[i].video_id : i \in 1..Len(cdf)}
              = {all_rows[i].video_id : i \in 1..Len(all_rows)}
        /\ \A i \in 1..Len(cdf) :
              /\ cdf[i] = all_rows[FirstIndex(cdf[i].video_id)]
              /\ cdf[i].query = FirstQuery(cdf[i].video_id)
        /\ \A i, j \in 1..Len(cdf) :
              i < j => FirstIndex(cdf[i].video_id) < FirstIndex(cdf[j].video_id)

\* Queries 1 and 2 both returned video 2 (query 1 after video 3, query 2
\* before video 1); one row for it survives, between the other two.
C4_Witness ==
    /\ pc = "s_enrich"
    /\ Len(all_rows) = 4
    /\ [i \in 1..4 |-> all_rows[i].video_id] = <<3, 2, 2, 1>>
    /\ [i \in 1..Len(cdf) |-> cdf[i].video_id] = <<3, 2, 1>>
    /\ cdf[2].query = 1

\* C7: when no query returns any item, the run ends early and normally with
\* the 'No videos found' message, sends no detail request and writes no
\* output file.
C7_EmptyResultExit ==
    (qi = NumQueries /\ all_rows = <<>> /\ ~(pc = "s_search")) =>
        /\ pc = "s_no_videos"
        /\ printed # <<>> /\ printed[Len(printed)] = "No videos found"
        /\ requests = <<>>
        /\ inflight = 0
        /\ detail_rows = <<>>
        /\ csv = <<>>
        /\ ~ENABLED NextSampler

C7_Witness ==
    /\ pc = "s_no_videos"
    /\ qi = NumQueries
    /\ \A q \in 1..NumQueries : searchIndex[q] = <<>>
    /\ all_rows = <<>>

\* The detail row the API returned for video v, if any.
HasDetail(v) == \E i \in 1..Len(detail_rows) : detail_rows[i].video_id = v
DetailOf(v) == detail_rows[CHOOSE i \in 1..Len(detail_rows) : detail_rows[i].video_id = v]

\* The candidate row of video v after deduplication.
CandidateOf(v) == all_rows[FirstIndex(v)]

Coalesced(detailValue, candidateValue) ==
    IF detailValue.null THEN candidateValue ELSE detailValue

\* Output row i is candidate c with each of the three fields taken from the
\* detail row when that has a non-null value.
CoalescedRow(out, c) ==
    /\ out.video_id = c.video_id
    /\ IF HasDetail(c.video_id)
       THEN LET d == DetailOf(c.video_id)
            IN  /\ out.description = Coalesced(d.full_description, c.description)
                /\ out.title = Coalesced(d.full_title, c.title)
                /\ out.publish_date = Coalesced(d.publish_date_full, c.publish_date)
       ELSE /\ out.description = c.description
            /\ out.title = c.title
            /\ out.publish_date = c.publish_date

EnrichmentOver == pc \in {"s_saved", "s_crashed"}

\* C8: after the left join of candidates to detail rows, each of
\* description, title and publish timestamp of every output row is the
\* detail row's value when a detail row matched and the value is non-null,
\* else the candidate's own; a candidate whose id is absent from the detail
\* rows keeps its three values and is still present in the output.
C8_CoalescePerField ==
    EnrichmentOver =>
        /\ pc = "s_saved"
        /\ Len(csv) = Len(video_ids)
        /\ \A i \in 1..Len(csv) :
              i <= Len(video_ids) /\ CoalescedRow(csv[i], CandidateOf(video_ids[i]))

\* What does hold of the reconciliation: whenever the details API returned
\* at least one row, every candidate is in the output, coalesced field by
\* field.  The only run in which C8 fails is the one with no detail row.
CoalesceWhenAnyDetail ==
    (EnrichmentOver /\ detail_rows # <<>>) =>
        /\ pc = "s_saved"
        /\ Len(csv) = Len(video_ids)
        /\ \A i \in 1..Len(csv) : CoalescedRow(csv[i], CandidateOf(video_ids[i]))

\* ceil(n / BatchSize)
CeilDiv(n, d) == (n + d - 1) \div d

\* C9: for n video ids fetch_video_details sends exactly ceil(n/50)
\* requests of 1 to 50 ids each; the batches in request order are
\* consecutive slices that partition the id list, so every id is requested
\* once and in the original order; and a request completes before the next
\* one is sent.
C9_BatchesPartitionIds ==
    /\ inflight \in {0, 1}
    /\ Len(requests) <= CeilDiv(Len(video_ids), BatchSize)
    /\ \A j \in 1..Len(requests) :
          /\ Len(requests[j]) >= 1
          /\ Len(requests[j]) <= BatchSize
          /\ j < CeilDiv(Len(video_ids), BatchSize) => Len(requests[j]) = BatchSize
          /\ \A k \in 1..Len(requests[j]) :
                /\ (j - 1) * BatchSize + k <= Len(video_ids)
                /\ requests[j][k] = video_ids[(j - 1) * BatchSize + k]
    /\ EnrichmentOver =>
          /\ Len(requests) = CeilDiv(Len(video_ids), BatchSize)
          /\ \A p \in 1..Len(video_ids) :
                Cardinality({<<j, k>> \in (1..Len(requests)) \X (1..BatchSize) :
                                k <= Len(requests[j]) /\ requests[j][k] = video_ids[p]}) = 1
    \* a response is consumed before the next request is sent
    /\ Len(requests) = (cursor \div BatchSize) + inflight

\* 120 ids went out as batches of 50, 50 and 20.
C9_Witness ==
    /\ pc = "s_saved"
    /\ Len(video_ids) = 120
    /\ Len(requests) = 3
    /\ Len(requests[1]) = 50 /\ Len(requests[2]) = 50 /\ Len(requests[3]) = 20
    /\ requests[3][1] = video_ids[101]

====
